---- MODULE Spec2Model ----
(***************************************************************************)
(* Admission processing pipeline of pepr: processor(config, capabilities,  *)
(* req) of src/src/lib/k8s/webhook.ts, lines 559-623.  One behaviour of    *)
(* the model is one invocation of processor: the arguments are chosen in   *)
(* Init, Begin builds the request wrapper and the response, and the loop   *)
(* over capabilities and bindings advances one binding per step.  Further  *)
(* specifications restrict or extend the callbacks (SpecQuiet, SpecDiff),  *)
(* the configuration (SpecIgnore), run several invocations (SpecPair), and *)
(* model allYaml and deploy of class Webhook, lines 392-545 (SpecDeploy).  *)
(***************************************************************************)
EXTENDS Integers, Sequences, FiniteSets, TLC

VARIABLES
    config,        \* ModuleConfig argument
    capabilities,  \* Capability[] argument
    req,           \* Request argument
    pc,            \* position in processor: idle, loop, done (returned), threw
    ci,            \* index of the capability of the outer for-of loop
    bi,            \* index of the binding of the inner for-of loop
    Raw,           \* wrapped.Raw, the working copy
    response,      \* the local response object
    invoked,       \* history of the calls of action.callback, in call order
    host,          \* Webhook: the host argument of the constructor, "" if none
    code,          \* the module bundle given to allYaml and deploy
    cluster,       \* the definition the cluster holds of each managed resource
    dpc,           \* position in deploy: off, idle, the resource at hand, done, threw
    call,          \* which awaited API call of the resource's block comes next
    yaml,          \* the resources allYaml has rendered, in document order
    self,          \* which invocation of processor the variables above belong to
    parked,        \* what the invocations that do not run are called with and returned
    behaviour      \* what the callbacks of the module do, when it is fixed

deployVars == <<host, code, cluster, dpc, call, yaml>>

pairVars == <<self, parked, behaviour>>

vars == <<config, capabilities, req, pc, ci, bi, Raw, response, invoked,
          deployVars, pairVars>>

(***************************************************************************)
(* Bounds and input sets.                                                  *)
(***************************************************************************)
MaxBindings == 2

\* name of the capability registered at each position (names are unique)
CapNames == <<"c1", "c2">>

\* who sent the request: its uid and the namespace of its object
Origins ==
    { [uid |-> "u1", namespace |-> "default"],
      [uid |-> "u2", namespace |-> "kube-system"] }

\* the JSON value null / undefined of an absent request.object
Null == [null |-> TRUE]

EmptyMap == [k \in {} |-> ""]

(***************************************************************************)
(* pepr.dev/${config.id}/${name}                                           *)
(***************************************************************************)
Identifier(cfg, name) == "pepr.dev/" \o cfg.id \o "/" \o name

\* a CREATE of the new Pod, an UPDATE of the stamped Pod, and a DELETE, whose
\* request carries no object
Payloads ==
    { [operation |-> "CREATE", object |-> [metadata |-> [name |-> "p1"]]],
      [operation |-> "UPDATE",
       object |-> [metadata |-> [name |-> "p1",
                                 annotations |->
                                     [k \in {"pepr.dev/m1/c1"} |-> "succeeded"]]]],
      [operation |-> "DELETE", object |-> Null] }

Requests ==
    { [uid |-> o.uid, kind |-> "Pod", name |-> "p1", namespace |-> o.namespace,
       operation |-> p.operation, object |-> p.object] :
        o \in Origins, p \in Payloads }

\* the bindings a capability registers (event, kind, filters); the callback
\* of a binding is an opaque function whose behaviour is drawn when called
BindingShapes ==
    { [event |-> "createOrUpdate", kind |-> "Pod",
       filters |-> [namespaces |-> {}, labels |-> EmptyMap, annotations |-> EmptyMap]],
      [event |-> "delete", kind |-> "Pod",
       filters |-> [namespaces |-> {"kube-system"}, labels |-> EmptyMap,
                    annotations |-> EmptyMap]] }

SeqsUpTo(S, n) == UNION { [1..k -> S] : k \in 0..n }

CapabilityAt(i) ==
    { [name |-> CapNames[i], namespaces |-> nss, bindings |-> bs] :
        nss \in {{}, {"kube-system"}}, bs \in SeqsUpTo(BindingShapes, MaxBindings) }

CapabilityLists ==
    UNION { { cs \in [1..k -> UNION { CapabilityAt(i) : i \in 1..k }] :
                \A i \in 1..k : cs[i] \in CapabilityAt(i) } : k \in 0..Len(CapNames) }

\* alwaysIgnore of ModuleConfig: the kinds and namespaces never to process
NoIgnore == [kinds |-> {}, namespaces |-> {}]

Configs == { [id |-> "m1", rejectOnError |-> r, alwaysIgnore |-> NoIgnore] : r \in BOOLEAN }

\* configurations whose alwaysIgnore.kinds lists the kind of the requests
ConfigsIgnoring ==
    { [id |-> "m1", rejectOnError |-> r,
       alwaysIgnore |-> [kinds |-> {"Pod"}, namespaces |-> {}]] : r \in BOOLEAN }

(***************************************************************************)
(* Filter: shouldSkipRequest(binding, req).  The call site passes only the *)
(* binding and the request, so the binding-level conditions are the ones   *)
(* the function can evaluate.                                              *)
(***************************************************************************)
EventMismatch(event, operation) ==
    \/ event = "create" /\ operation # "CREATE"
    \/ event = "update" /\ operation # "UPDATE"
    \/ event = "delete" /\ operation # "DELETE"
    \/ event = "createOrUpdate" /\ operation \notin {"CREATE", "UPDATE"}

\* every (k, v) of the filter: key present and, when v is not empty, equal
MapMismatch(wanted, metadata, field) ==
    LET have == IF field \in DOMAIN metadata THEN metadata[field] ELSE EmptyMap
    IN  \E k \in DOMAIN wanted :
            \/ k \notin DOMAIN have
            \/ wanted[k] # "" /\ have[k] # wanted[k]

shouldSkipRequest(binding, r) ==
    LET metadata == IF r.object = Null THEN EmptyMap ELSE r.object.metadata
    IN  \/ EventMismatch(binding.event, r.operation)
        \/ binding.kind # r.kind
        \/ /\ binding.filters.namespaces # {}
           /\ r.namespace \notin binding.filters.namespaces
        \/ MapMismatch(binding.filters.labels, metadata, "labels")
        \/ MapMismatch(binding.filters.annotations, metadata, "annotations")

(***************************************************************************)
(* Request wrapper: Raw is a deep clone of request.object; shared tells    *)
(* whether Raw and request.object are one object, so that a write to one   *)
(* is a write to the other.                                                *)
(***************************************************************************)
RequestWrapper_NoClone(r) == [Raw |-> r.object, shared |-> TRUE]

RequestWrapper(r) == [Raw |-> r.object, shared |-> FALSE]

\* the request once the working copy has become raw
Original(r, raw) ==
    IF RequestWrapper(r).shared THEN [r EXCEPT !.object = raw] ELSE r

(***************************************************************************)
(* JSON objects are functions from keys to values.                         *)
(***************************************************************************)
SetField(obj, k, v) == (k :> v) @@ obj
DeleteField(obj, k) == [x \in DOMAIN obj \ {k} |-> obj[x]]

(***************************************************************************)
(* During one iteration the processor holds `metadata`, the object that    *)
(* wrapped.Raw.metadata referenced when the iteration began.  A callback   *)
(* may mutate that object in place or make wrapped.Raw reference a fresh   *)
(* deep copy; held is the object the local variable references, raw the    *)
(* object reachable from wrapped.Raw, aliased whether they are one object. *)
(***************************************************************************)
Capture(doc) == [held |-> doc.metadata, raw |-> doc.metadata, aliased |-> TRUE]

WriteHeld(h, m) == [held |-> m, raw |-> IF h.aliased THEN m ELSE h.raw, aliased |-> h.aliased]

\* metadata.annotations = metadata.annotations || {}
EnsureAnnotations(h) ==
    IF "annotations" \in DOMAIN h.held THEN h
    ELSE WriteHeld(h, SetField(h.held, "annotations", EmptyMap))

\* metadata.annotations[identifier] = value is a TypeError without the map
CanStamp(h) == "annotations" \in DOMAIN h.held

Stamp_AsLabel(h, identifier, value) ==
    WriteHeld(h, SetField(h.held, "labels", (identifier :> value)))

Stamp(h, identifier, value) ==
    WriteHeld(h, SetField(h.held, "annotations",
                          SetField(h.held.annotations, identifier, value)))

(***************************************************************************)
(* What a callback may do to the wrapper before it returns or throws.      *)
(***************************************************************************)
Effects == {"none", "setLabel", "replaceRaw", "deleteAnnotations"}

\* a value JSON.stringify throws a TypeError on: the BigInt 1n
BigInt == "1n"

\* the callbacks that may store such a value
EffectsDiff == {"none", "setLabel", "setBigInt"}
Outcomes == {"ok", "throw"}

\* the error a failing callback throws: each callback has its own message
ErrorOf(c, b) == "e" \o ToString(c) \o "." \o ToString(b)

Callback(h, effect) ==
    CASE effect = "none" -> h
      [] effect = "setLabel" ->
            \* wrapped.Raw.metadata.labels = { x: "y" }
            WriteHeld(h, SetField(h.held, "labels", [k \in {"x"} |-> "y"]))
      [] effect = "replaceRaw" ->
            \* wrapped.Raw = <deep copy of wrapped.Raw>
            [held |-> h.held, raw |-> h.raw, aliased |-> FALSE]
      [] effect = "deleteAnnotations" ->
            \* delete wrapped.Raw.metadata.annotations
            WriteHeld(h, DeleteField(h.held, "annotations"))
      [] effect = "rename" ->
            \* wrapped.Raw.metadata.name = "p2"
            WriteHeld(h, SetField(h.held, "name", "p2"))
      [] effect = "setBigInt" ->
            \* wrapped.Raw.metadata.labels = { x: 1n }
            WriteHeld(h, SetField(h.held, "labels", [k \in {"x"} |-> BigInt]))

(***************************************************************************)
(* compare(req.object, wrapped.Raw) of fast-json-patch.  Keys are visited  *)
(* in insertion order: name, then the annotations the processor creates    *)
(* before a callback runs, then the labels a callback adds; inside the     *)
(* annotations, the identifiers in the order the capabilities stamp them.  *)
(* A path is the list of its reference tokens.                             *)
(***************************************************************************)
KeyOrder ==
    <<"metadata", "name", "annotations", "labels">>
        \o [i \in 1..Len(CapNames) |-> Identifier(config, CapNames[i])]
        \o <<"x">>

OrderedKeys(obj) == SelectSeq(KeyOrder, LAMBDA k : k \in DOMAIN obj)

IsObjectAt(path) ==
    path \in { <<"metadata">>, <<"metadata", "labels">>, <<"metadata", "annotations">> }

RECURSIVE Generate(_, _, _)
RECURSIVE GenerateOld(_, _, _, _)
RECURSIVE GenerateNew(_, _, _, _)

\* the loop over the old keys, from the last to the first
GenerateOld(mirror, obj, path, t) ==
    IF t = 0 THEN <<>>
    ELSE LET key == OrderedKeys(mirror)[t]
             here == Append(path, key)
             ops == IF key \in DOMAIN obj
                    THEN IF IsObjectAt(here)
                         THEN Generate(mirror[key], obj[key], here)
                         ELSE IF mirror[key] # obj[key]
                              THEN << [op |-> "replace", path |-> here, value |-> obj[key]] >>
                              ELSE <<>>
                    ELSE << [op |-> "remove", path |-> here] >>
         IN  ops \o GenerateOld(mirror, obj, path, t - 1)

\* the loop over the new keys, from the first to the last
GenerateNew(mirror, obj, path, t) ==
    IF t > Len(OrderedKeys(obj)) THEN <<>>
    ELSE LET key == OrderedKeys(obj)[t]
             ops == IF key \notin DOMAIN mirror
                    THEN << [op |-> "add", path |-> Append(path, key), value |-> obj[key]] >>
                    ELSE <<>>
         IN  ops \o GenerateNew(mirror, obj, path, t + 1)

Generate(mirror, obj, path) ==
    LET deleted == DOMAIN mirror \ DOMAIN obj # {}
        first == GenerateOld(mirror, obj, path, Len(OrderedKeys(mirror)))
    IN  IF ~deleted /\ Cardinality(DOMAIN obj) = Cardinality(DOMAIN mirror)
        THEN first
        ELSE first \o GenerateNew(mirror, obj, path, 1)

\* if (obj === mirror) return;  an absent object is identical to its clone
compare(tree1, tree2) ==
    IF tree1 = Null /\ tree2 = Null THEN <<>> ELSE Generate(tree1, tree2, <<>>)

\* JSON.stringify(patches)
Stringify(value) == <<"json", value>>

\* JSON.stringify throws on the value: compare deep-clones the value of every
\* add and replace operation through JSON, and line 618 serialises the patch
Unserialisable(value, path) ==
    IF IsObjectAt(path) THEN \E k \in DOMAIN value : value[k] = BigInt
    ELSE value = BigInt

DiffThrows(patches) ==
    \E k \in 1..Len(patches) :
        /\ patches[k].op \in {"add", "replace"}
        /\ Unserialisable(patches[k].value, patches[k].path)

\* JSON.parse, the inverse of JSON.stringify
Parse(text) == text[2]

Patches_Swapped(r, raw) == compare(raw, r.object)

\* const patches = compare(req.object, wrapped.Raw)
Patches(r, raw) == compare(r.object, raw)

(***************************************************************************)
(* Applying a JSON Patch document (RFC 6902) to a document.                *)
(***************************************************************************)
RECURSIVE SetAt(_, _, _)
SetAt(doc, path, value) ==
    IF Len(path) = 1 THEN SetField(doc, path[1], value)
    ELSE SetField(doc, path[1], SetAt(doc[path[1]], Tail(path), value))

RECURSIVE RemoveAt(_, _)
RemoveAt(doc, path) ==
    IF Len(path) = 1 THEN DeleteField(doc, path[1])
    ELSE SetField(doc, path[1], RemoveAt(doc[path[1]], Tail(path)))

RECURSIVE ApplyPatch(_, _)
ApplyPatch(doc, patches) ==
    IF patches = <<>> THEN doc
    ELSE LET first == Head(patches)
             next == IF first.op = "remove" THEN RemoveAt(doc, first.path)
                     ELSE SetAt(doc, first.path, first.value)
         IN  ApplyPatch(next, Tail(patches))

(***************************************************************************)
(* The response object and the statements that change it.                  *)
(***************************************************************************)
NewResponse_FixedUid(r) ==
    [uid |-> "u1", patchType |-> "JSONPatch", warnings |-> <<>>, allowed |-> FALSE]

NewResponse_SharedWarnings(r) ==
    [uid |-> r.uid, patchType |-> "JSONPatch",
     warnings |-> IF "warnings" \in DOMAIN response THEN response.warnings ELSE <<>>,
     allowed |-> FALSE]

NewResponse(r) ==
    [uid |-> r.uid, patchType |-> "JSONPatch", warnings |-> <<>>, allowed |-> FALSE]

PushWarning_Dropped(resp, e) == resp

PushWarning_Front(resp, e) ==
    [resp EXCEPT !.warnings = <<"Action failed: " \o e>> \o @]

\* response.warnings.push(`Action failed: ${e}`)
PushWarning(resp, e) == [resp EXCEPT !.warnings = Append(@, "Action failed: " \o e)]

Reject_NoResult(resp) == resp

\* response.result = "Pepr module configured to reject on error"
Reject(resp) == SetField(resp, "result", "Pepr module configured to reject on error")

\* response.allowed = true; response.patch = JSON.stringify(patches)
Allow(resp, patches) ==
    SetField([resp EXCEPT !.allowed = TRUE], "patch", Stringify(patches))

(***************************************************************************)
(* Control flow of the two loops.                                          *)
(***************************************************************************)
IterationOrder_Reversed(n) == [i \in 1..n |-> n + 1 - i]

\* for (const action of bindings): the position visited at each iteration
IterationOrder(n) == [i \in 1..n |-> i]

Skipped_Never(action, r) == FALSE

\* if (shouldSkipRequest(action, req)) continue;
Skipped(action, r) == shouldSkipRequest(action, r)

ReturnsOnFailure_Never(cfg) == FALSE

\* if (config.rejectOnError) { ...; return response; }
ReturnsOnFailure(cfg) == cfg.rejectOnError

WithMetadata(doc, m) == [doc EXCEPT !.metadata = m]

AfterFailure_RolledBack(before, after) == before

\* the catch block (599-610) restores nothing: the wrapper stays as the
\* callback left it when it threw
AfterFailure(before, after) == after

InLoop == pc = "loop" /\ ci <= Len(capabilities)

CurrentPosition == IterationOrder(Len(capabilities[ci].bindings))[bi]

(***************************************************************************)
(* The state before processor is called: its three arguments.  No Webhook  *)
(* is at work, and the invocation is the only one.                         *)
(***************************************************************************)
DeployOff ==
    /\ host = ""
    /\ code = ""
    /\ cluster = EmptyMap
    /\ dpc = "off"
    /\ call = 1
    /\ yaml = <<>>

PairOff ==
    /\ self = "A"
    /\ parked = EmptyMap
    /\ behaviour = "any"

Init ==
    /\ config \in Configs
    /\ capabilities \in CapabilityLists
    /\ req \in Requests
    /\ pc = "idle"
    /\ ci = 0
    /\ bi = 0
    /\ Raw = Null
    /\ response = EmptyMap
    /\ invoked = <<>>
    /\ DeployOff
    /\ PairOff

\* lines 564-570: the wrapper and the response are constructed
Begin ==
    /\ pc = "idle"
    /\ Raw' = RequestWrapper(req).Raw
    /\ response' = NewResponse(req)
    /\ ci' = 1
    /\ bi' = 1
    /\ pc' = "loop"
    /\ UNCHANGED <<config, capabilities, req, invoked, deployVars, pairVars>>

\* lines 578-582: the binding does not match the request
SkipBinding ==
    /\ InLoop
    /\ bi <= Len(capabilities[ci].bindings)
    /\ Skipped(capabilities[ci].bindings[CurrentPosition], req)
    /\ bi' = bi + 1
    /\ UNCHANGED <<config, capabilities, req, pc, ci, Raw, response, invoked>>
    /\ UNCHANGED <<deployVars, pairVars>>

\* lines 584-611: one matched binding, from the "started" stamp to the end
\* of the try/catch; effect and outcome are the behaviour of its callback
RunBinding(effect, outcome) ==
    /\ InLoop
    /\ bi <= Len(capabilities[ci].bindings)
    /\ ~Skipped(capabilities[ci].bindings[CurrentPosition], req)
    /\ UNCHANGED <<config, capabilities, ci, deployVars, pairVars>>
    /\ IF Raw = Null
       THEN \* const { metadata } = wrapped.Raw throws outside the try
            /\ pc' = "threw"
            /\ UNCHANGED <<bi, Raw, response, invoked>>
       ELSE LET identifier == Identifier(config, capabilities[ci].name)
                started == Stamp(EnsureAnnotations(Capture(Raw)), identifier, "started")
                after == Callback(started, effect)
                error == ErrorOf(ci, CurrentPosition)
                thrown == IF outcome = "throw" THEN error
                          ELSE IF CanStamp(after) THEN "none" ELSE "TypeError"
                failed == AfterFailure(started, after)
            IN  /\ invoked' = Append(invoked,
                                     [cap |-> ci, binding |-> CurrentPosition,
                                      error |-> IF outcome = "throw" THEN error ELSE "none"])
                /\ IF thrown = "none"
                   THEN /\ Raw' = WithMetadata(Raw, Stamp(after, identifier, "succeeded").raw)
                        /\ bi' = bi + 1
                        /\ UNCHANGED <<pc, response>>
                   ELSE IF ReturnsOnFailure(config)
                   THEN /\ response' = Reject(PushWarning(response, thrown))
                        /\ Raw' = WithMetadata(Raw, failed.raw)
                        /\ pc' = "done"
                        /\ UNCHANGED bi
                   ELSE IF CanStamp(failed)
                   THEN /\ response' = PushWarning(response, thrown)
                        /\ Raw' = WithMetadata(Raw, Stamp(failed, identifier, "warning").raw)
                        /\ bi' = bi + 1
                        /\ UNCHANGED pc
                   ELSE \* the "warning" stamp throws inside the catch block
                        /\ response' = PushWarning(response, thrown)
                        /\ Raw' = WithMetadata(Raw, failed.raw)
                        /\ pc' = "threw"
                        /\ UNCHANGED bi
    /\ req' = Original(req, Raw')

\* line 578: the bindings of the capability are exhausted
NextCapability ==
    /\ InLoop
    /\ bi > Len(capabilities[ci].bindings)
    /\ ci' = ci + 1
    /\ bi' = 1
    /\ UNCHANGED <<config, capabilities, req, pc, Raw, response, invoked>>
    /\ UNCHANGED <<deployVars, pairVars>>

\* lines 615-622: the capabilities are exhausted
Finish ==
    /\ pc = "loop"
    /\ ci > Len(capabilities)
    /\ IF DiffThrows(Patches(req, Raw))
       THEN \* line 615 has run; 617 or 618 throws and nothing catches it
            /\ response' = [response EXCEPT !.allowed = TRUE]
            /\ pc' = "threw"
       ELSE /\ response' = Allow(response, Patches(req, Raw))
            /\ pc' = "done"
    /\ UNCHANGED <<config, capabilities, req, ci, bi, Raw, invoked, deployVars, pairVars>>

Next ==
    \/ Begin
    \/ SkipBinding
    \/ \E effect \in Effects, outcome \in Outcomes : RunBinding(effect, outcome)
    \/ NextCapability
    \/ Finish

Spec == Init /\ [][Next]_vars

(***************************************************************************)
(* The executions in which no callback touches the wrapper: a callback     *)
(* only returns or throws.                                                 *)
(***************************************************************************)
NextQuiet ==
    \/ Begin
    \/ SkipBinding
    \/ \E outcome \in Outcomes : RunBinding("none", outcome)
    \/ NextCapability
    \/ Finish

SpecQuiet == Init /\ [][NextQuiet]_vars

(***************************************************************************)
(* The executions in which a callback may store a value that has no JSON   *)
(* form.                                                                   *)
(***************************************************************************)
NextDiff ==
    \/ Begin
    \/ SkipBinding
    \/ \E effect \in EffectsDiff, outcome \in Outcomes : RunBinding(effect, outcome)
    \/ NextCapability
    \/ Finish

SpecDiff == Init /\ [][NextDiff]_vars

(***************************************************************************)
(* The executions of a module configured to ignore the kind of the request.*)
(***************************************************************************)
InitIgnore ==
    /\ config \in ConfigsIgnoring
    /\ capabilities \in CapabilityLists
    /\ req \in Requests
    /\ pc = "idle"
    /\ ci = 0
    /\ bi = 0
    /\ Raw = Null
    /\ response = EmptyMap
    /\ invoked = <<>>
    /\ DeployOff
    /\ PairOff

SpecIgnore == InitIgnore /\ [][Next]_vars

(***************************************************************************)
(* class Webhook: the resources of a module and their deployment.  An      *)
(* instance is built from the module configuration and an optional host;   *)
(* its constructor generates fresh TLS material.                           *)
(***************************************************************************)
Codes == {"a", "b"}

\* crypto.createHash("sha256").update(code).digest("hex")
Sha256(data) ==
    CASE data = "a" -> "ca978112ca1bbdcafac231b39a23dc4da786eff8147c4e72b9807785afee48bb"
      [] data = "b" -> "3e23e8160039594a33894f6564e1b1348bbd7a0088d42c4acb73eeaed59c009d"

\* gzipSync(data).toString("base64")
Gzip(data) == "base64(gzip(" \o data \o "))"

\* genTLS(name): the material of one construction
genTLS(name, construction) ==
    [ca |-> "ca-" \o construction, crt |-> "crt-" \o construction \o "-" \o name,
     key |-> "key-" \o construction]

Webhook(cfg, h, construction) ==
    [config |-> cfg,
     host |-> h,
     name |-> "pepr-" \o cfg.uuid,
     image |-> "ghcr.io/defenseunicorns/pepr/controller:v" \o cfg.version,
     tls |-> genTLS(IF h # "" THEN h ELSE "pepr-" \o cfg.uuid \o ".pepr-system.svc",
                    construction)]

namespace(w) == [kind |-> "Namespace", name |-> "pepr-system"]

clusterRole(w) ==
    [kind |-> "ClusterRole", name |-> w.name,
     verbs |-> {"create", "delete", "get", "list", "patch", "update", "watch"}]

clusterRoleBinding(w) ==
    [kind |-> "ClusterRoleBinding", name |-> w.name, roleRef |-> w.name,
     subject |-> [kind |-> "ServiceAccount", name |-> w.name, namespace |-> "pepr-system"]]

serviceAccount(w) ==
    [kind |-> "ServiceAccount", name |-> w.name, namespace |-> "pepr-system"]

tlsSecret(w) ==
    [kind |-> "Secret", name |-> w.name \o "-tls", namespace |-> "pepr-system",
     type |-> "kubernetes.io/tls",
     data |-> [k \in {"tls.crt", "tls.key"} |-> IF k = "tls.crt" THEN w.tls.crt ELSE w.tls.key]]

mutatingWebhook(w) ==
    LET ignore == IF w.config.alwaysIgnore.namespaces # {}
                  THEN << "pepr.dev NotIn ignore", w.config.alwaysIgnore.namespaces >>
                  ELSE << "pepr.dev NotIn ignore" >>
        clientConfig == IF w.host # ""
                        THEN [caBundle |-> w.tls.ca,
                              url |-> "https://" \o w.host \o ":3000/mutate"]
                        ELSE [caBundle |-> w.tls.ca,
                              service |-> [name |-> w.name, namespace |-> "pepr-system",
                                           path |-> "/mutate"]]
    IN  [kind |-> "MutatingWebhookConfiguration", name |-> w.name,
         clientConfig |-> clientConfig, failurePolicy |-> "Ignore",
         namespaceSelector |-> ignore, objectSelector |-> ignore]

deployment_Latest(w, hash) ==
    [kind |-> "Deployment", name |-> w.name, namespace |-> "pepr-system",
     image |-> w.image, serviceAccountName |-> w.name,
     command |-> <<"node", "/app/node_modules/pepr/dist/run.js", "latest", "-l", "debug">>,
     secrets |-> {w.name \o "-tls", w.name \o "-module"}]

deployment(w, hash) ==
    [kind |-> "Deployment", name |-> w.name, namespace |-> "pepr-system",
     image |-> w.image, serviceAccountName |-> w.name,
     command |-> <<"node", "/app/node_modules/pepr/dist/run.js", hash, "-l", "debug">>,
     secrets |-> {w.name \o "-tls", w.name \o "-module"}]

networkPolicy(w) ==
    [kind |-> "NetworkPolicy", name |-> w.name, namespace |-> "pepr-system",
     podSelector |-> w.name, from |-> "kube-system", port |-> "443"]

service(w) ==
    [kind |-> "Service", name |-> w.name, namespace |-> "pepr-system",
     selector |-> w.name, port |-> "443", targetPort |-> "3000"]

moduleSecret(w, data, hash) ==
    [kind |-> "Secret", name |-> w.name \o "-module", namespace |-> "pepr-system",
     type |-> "Opaque",
     data |-> (("module-" \o hash \o ".js.gz") :> Gzip(data))]

\* allYaml(code): the documents in the order they are joined
allYaml(w, data) ==
    LET hash == Sha256(data)
    IN  << namespace(w), networkPolicy(w), clusterRole(w), clusterRoleBinding(w),
           serviceAccount(w), tlsSecret(w), mutatingWebhook(w), deployment(w, hash),
           service(w), moduleSecret(w, data, hash) >>

(***************************************************************************)
(* deploy(code).  The cluster holds at most one definition per managed     *)
(* resource; a create is refused when the resource exists (409), a read    *)
(* and a delete when it does not (404), and any call fails when the API    *)
(* server does not answer it.  deploy awaits every API call, so each call  *)
(* is a step of its own: between the delete and the create of a block the  *)
(* resource is absent.                                                     *)
(***************************************************************************)
Absent == [absent |-> TRUE]

\* the resources in the order deploy applies them
Managed ==
    << "namespace", "webhook", "networkPolicy", "clusterRoleBinding", "clusterRole",
       "serviceAccount", "moduleSecret", "service", "tlsSecret", "deployment" >>

\* the definition deploy builds of a resource
Generated(w, data, resource) ==
    LET hash == Sha256(data)
    IN  CASE resource = "namespace" -> namespace(w)
          [] resource = "webhook" -> mutatingWebhook(w)
          [] resource = "networkPolicy" -> networkPolicy(w)
          [] resource = "clusterRoleBinding" -> clusterRoleBinding(w)
          [] resource = "clusterRole" -> clusterRole(w)
          [] resource = "serviceAccount" -> serviceAccount(w)
          [] resource = "moduleSecret" -> moduleSecret(w, data, hash)
          [] resource = "service" -> service(w)
          [] resource = "tlsSecret" -> tlsSecret(w)
          [] resource = "deployment" -> deployment(w, hash)

Put(cl, resource, def) == [cl EXCEPT ![resource] = def]

\* the shape of the try/catch block of a resource:
\*   read:    try { read } catch { create }                      (430-437, 456-463)
\*   replace: try { create } catch { delete; create }
\*   quiet:   try { create } catch { try { delete; create } catch { } }  (477-489)
Block(resource) ==
    CASE resource \in {"namespace", "networkPolicy"} -> "read"
      [] resource = "clusterRole" -> "quiet"
      [] OTHER -> "replace"

\* the n-th awaited call of the block of a resource
CallOf(resource, n) ==
    IF Block(resource) = "read"
    THEN IF n = 1 THEN "read" ELSE "create"
    ELSE IF n = 2 THEN "delete" ELSE "create"

\* whether the API server carries the call out
Succeeds(cl, resource, op, answered) ==
    /\ answered
    /\ IF op = "create" THEN cl[resource] = Absent ELSE cl[resource] # Absent

\* the cluster after a call that was carried out
Effect(cl, resource, op, def) ==
    CASE op = "create" -> Put(cl, resource, def)
      [] op = "delete" -> Put(cl, resource, Absent)
      [] OTHER -> cl

\* where deploy goes after the n-th call of a block: to the next call of the
\* block ("call"), past the block ("next"), or out with the error ("throw")
Continuation(resource, n, ok) ==
    IF ok
    THEN IF CallOf(resource, n) = "delete" THEN "call" ELSE "next"
    ELSE IF n = 1 THEN "call"
         ELSE IF Block(resource) = "quiet" THEN "next" ELSE "throw"

\* the resource deploy turns to after one, "done" after the last
After(resource) ==
    LET k == CHOOSE i \in 1..Len(Managed) : Managed[i] = resource
    IN  IF k = Len(Managed) THEN "done" ELSE Managed[k + 1]

\* the configurations a Webhook is built from
DeployConfigs ==
    { [id |-> "m1", uuid |-> "m1", version |-> "0.2.0", rejectOnError |-> FALSE,
       alwaysIgnore |-> [kinds |-> {}, namespaces |-> nss]] : nss \in {{}, {"zarf"}} }

Hosts == {"", "host.docker.internal"}

\* this: the instance allYaml and deploy are called on; every instance has
\* TLS material of its own
This == Webhook(config, host, IF self = "B" THEN "new-b" ELSE "new")

\* what an earlier deploy of an older release of the module left behind:
\* resources of the same names whose definitions are not the ones generated
\* now
Earlier ==
    LET cfg == [id |-> "m1", uuid |-> "m1", version |-> "0.1.0", rejectOnError |-> FALSE,
                alwaysIgnore |-> NoIgnore]
    IN  [r \in { Managed[i] : i \in 1..Len(Managed) } |->
            SetField(Generated(Webhook(cfg, "", "old"), "b", r), "release", "0.1.0")]

Clusters ==
    { [r \in DOMAIN Earlier |-> IF r \in present THEN Earlier[r] ELSE Absent] :
        present \in SUBSET DOMAIN Earlier }

InitDeploy ==
    /\ config \in DeployConfigs
    /\ capabilities = <<>>
    /\ req = Null
    /\ pc = "off"
    /\ ci = 0
    /\ bi = 0
    /\ Raw = Null
    /\ response = EmptyMap
    /\ invoked = <<>>
    /\ host \in Hosts
    /\ code \in Codes
    /\ cluster \in Clusters
    /\ dpc = "idle"
    /\ call = 1
    /\ yaml = <<>>
    /\ PairOff

processorVars == <<config, capabilities, req, pc, ci, bi, Raw, response, invoked>>

\* lines 392-411
AllYaml ==
    /\ dpc # "off"
    /\ yaml = <<>>
    /\ yaml' = allYaml(This, code)
    /\ UNCHANGED <<processorVars, host, code, cluster, dpc, call, pairVars>>

\* lines 413-427
DeployBegin ==
    /\ dpc = "idle"
    /\ dpc' = Managed[1]
    /\ UNCHANGED <<processorVars, host, code, cluster, call, yaml, pairVars>>

ReturnsEarly_Never(resource, h) == FALSE

\* if (this.host) { return; } after the webhook configuration
ReturnsEarly(resource, h) == resource = "webhook" /\ h # ""

\* one awaited API call of lines 429-544, with what follows it up to the next
\* await: the catch, the next resource, or the return of line 452
DeployCall(answered) ==
    /\ dpc \in DOMAIN cluster
    /\ LET op == CallOf(dpc, call)
           ok == Succeeds(cluster, dpc, op, answered)
           then == Continuation(dpc, call, ok)
       IN  /\ cluster' = IF ok THEN Effect(cluster, dpc, op, Generated(This, code, dpc))
                         ELSE cluster
           /\ dpc' = CASE then = "call" -> dpc
                       [] then = "throw" -> "threw"
                       [] OTHER -> IF ReturnsEarly(dpc, host) THEN "done" ELSE After(dpc)
           /\ call' = IF then = "call" THEN call + 1 ELSE 1
    /\ UNCHANGED <<processorVars, host, code, yaml, pairVars>>

NextDeploy ==
    \/ AllYaml
    \/ DeployBegin
    \/ \E answered \in BOOLEAN : DeployCall(answered)

SpecDeploy == InitDeploy /\ [][NextDeploy]_vars

(***************************************************************************)
(* Two deploys of the same module, by two Webhook instances A and B, on    *)
(* one cluster.  dpc and call are those of the deploy that runs (self);    *)
(* parked keeps those of the other, and every await is a point where the   *)
(* other may go on.  A call of one may then meet what the other has just   *)
(* created or deleted, and fail with 409 or 404 though it was answered.    *)
(***************************************************************************)
InitDeployPair ==
    /\ config \in DeployConfigs
    /\ capabilities = <<>>
    /\ req = Null
    /\ pc = "off"
    /\ ci = 0
    /\ bi = 0
    /\ Raw = Null
    /\ response = EmptyMap
    /\ invoked = <<>>
    /\ host \in Hosts
    /\ code \in Codes
    /\ cluster \in { c \in Clusters : \A r, q \in DOMAIN c : c[r] = Absent <=> c[q] = Absent }
    /\ dpc = "idle"
    /\ call = 1
    /\ yaml = <<>>
    /\ self = "A"
    /\ parked = [n \in {"B"} |-> [dpc |-> "idle", call |-> 1]]
    /\ behaviour = "any"

\* the deploy that runs waits for the API server and the other one goes on
DeploySwitch ==
    /\ dpc # "off"
    /\ \E other \in DOMAIN parked :
          /\ parked[other].dpc \notin {"done", "threw"}
          /\ dpc' = parked[other].dpc
          /\ call' = parked[other].call
          /\ parked' = [n \in {self} |-> [dpc |-> dpc, call |-> call]]
          /\ self' = other
    /\ UNCHANGED <<processorVars, host, code, cluster, yaml, behaviour>>

NextDeployPair ==
    \/ DeployBegin
    \/ \E answered \in BOOLEAN : DeployCall(answered)
    \/ DeploySwitch

SpecDeployPair == InitDeployPair /\ [][NextDeployPair]_vars

(***************************************************************************)
(* Several invocations of processor.  processor is a synchronous function: *)
(* the callback is called, not awaited, so an invocation runs from line    *)
(* 564 to its return with nothing in between, and invocations follow one   *)
(* another in the order their callers make them.  They run in the same     *)
(* process: config and capabilities are the same objects for all of them,  *)
(* and what an invocation left in ci, bi, Raw and response is still there  *)
(* when the next one is called.  Nothing is put back between calls: what   *)
(* an invocation starts from is what lines 564-570 make of its argument.   *)
(* parked keeps the request each caller passes and, once an invocation     *)
(* returned, what it returned with.  A first invocation, solo, handles the *)
(* request of A with nothing before it; then A and B are called, in either *)
(* order.  The callbacks are fixed functions of the wrapper they receive,  *)
(* so that the runs can be compared.                                       *)
(***************************************************************************)
MaxPairBindings == 1

Callbacks == {"label", "failOutsideDefault", "replaceOnUpdate"}

\* what the callback named by behaviour does with the wrapper of request r
EffectOf(name, r) ==
    CASE name = "label" -> "setLabel"
      [] name = "failOutsideDefault" -> "none"
      [] name = "replaceOnUpdate" -> IF r.operation = "UPDATE" THEN "replaceRaw" ELSE "none"

OutcomeOf(name, r) ==
    IF name = "failOutsideDefault" /\ r.namespace # "default" THEN "throw" ELSE "ok"

PairCapabilityLists ==
    { cs \in CapabilityLists :
        /\ Len(cs) >= 1
        /\ \A i \in 1..Len(cs) :
              cs[i].namespaces = {} /\ Len(cs[i].bindings) <= MaxPairBindings }

\* the locals of the invocation that runs
Locals ==
    [req |-> req, pc |-> pc, ci |-> ci, bi |-> bi, Raw |-> Raw,
     response |-> response, invoked |-> invoked]

Finished(locals) == locals.pc \in {"done", "threw"}

InitPair ==
    /\ config \in Configs
    /\ capabilities \in PairCapabilityLists
    /\ behaviour \in Callbacks
    /\ self = "solo"
    /\ \E a, b \in Requests :
          /\ a.uid # b.uid
          /\ req = a
          /\ parked = [n \in {"solo", "A", "B"} |->
                          [req |-> IF n = "B" THEN b ELSE a,
                           called |-> n = "solo",
                           locals |-> Null]]
    /\ pc = "idle"
    /\ ci = 0
    /\ bi = 0
    /\ Raw = Null
    /\ response = EmptyMap
    /\ invoked = <<>>
    /\ DeployOff

\* the invocation at hand returned and the caller of invocation n calls
\* processor with its request: the call passes req and nothing else, so ci,
\* bi, Raw and response hold what the invocation before left in them
Call(n) ==
    /\ Finished(Locals)
    /\ ~parked[n].called
    /\ parked' = [parked EXCEPT ![self].locals = Locals, ![n].called = TRUE]
    /\ self' = n
    /\ req' = parked[n].req
    /\ pc' = "idle"
    /\ invoked' = <<>>
    /\ UNCHANGED <<config, capabilities, ci, bi, Raw, response, behaviour, deployVars>>

NextPair ==
    \/ Begin
    \/ SkipBinding
    \/ RunBinding(EffectOf(behaviour, req), OutcomeOf(behaviour, req))
    \/ NextCapability
    \/ Finish
    \/ \E n \in {"A", "B"} : Call(n)

SpecPair == InitPair /\ [][NextPair]_vars

(***************************************************************************)
(* The executions in which what the callbacks of a capability do is fixed  *)
(* beforehand: behaviour gives, for each capability, the mutation its      *)
(* callbacks make and whether they throw after making it.                  *)
(***************************************************************************)
EffectsKept == {"none", "setLabel", "rename", "replaceRaw"}

Scripts == [1..Len(CapNames) -> [effect : EffectsKept, outcome : Outcomes]]

InitKept ==
    /\ config \in Configs
    /\ capabilities \in PairCapabilityLists
    /\ req \in Requests
    /\ pc = "idle"
    /\ ci = 0
    /\ bi = 0
    /\ Raw = Null
    /\ response = EmptyMap
    /\ invoked = <<>>
    /\ DeployOff
    /\ self = "A"
    /\ parked = EmptyMap
    /\ behaviour \in Scripts

NextKept ==
    \/ Begin
    \/ SkipBinding
    \/ InLoop /\ RunBinding(behaviour[ci].effect, behaviour[ci].outcome)
    \/ NextCapability
    \/ Finish

SpecKept == InitKept /\ [][NextKept]_vars

(***************************************************************************)
(* Vocabulary of the properties.                                           *)
(***************************************************************************)
Returned == pc = "done"

Has(obj, field) == field \in DOMAIN obj

FailedCalls == SelectSeq(invoked, LAMBDA e : e.error # "none")

LastCall == invoked[Len(invoked)]

\* the value of an annotation of a document, "absent" when it has none
AnnotationOf(doc, key) ==
    IF doc = Null THEN "absent"
    ELSE IF Has(doc.metadata, "annotations") /\ key \in DOMAIN doc.metadata.annotations
         THEN doc.metadata.annotations[key]
         ELSE "absent"

CapKey(i) == Identifier(config, capabilities[i].name)

\* the bindings of the request that the filter lets through
Matched ==
    { <<i, b>> \in (1..Len(capabilities)) \X (1..MaxBindings) :
        /\ b <= Len(capabilities[i].bindings)
        /\ ~shouldSkipRequest(capabilities[i].bindings[b], req) }

Called == { <<invoked[k].cap, invoked[k].binding>> : k \in 1..Len(invoked) }

\* C1: every response the processor returns carries the uid of the request,
\* on the allowed path and on the reject-on-error path.
C1_UidEchoed == Returned => response.uid = req.uid

C1_Witness == Returned /\ ~response.allowed /\ req.uid = "u2"

\* C2: a returned response is either allowed with a patch and no result, or
\* not allowed with a result.
C2_ResponseShape ==
    Returned =>
        \/ response.allowed /\ Has(response, "patch") /\ ~Has(response, "result")
        \/ ~response.allowed /\ Has(response, "result")

C2_Witness ==
    /\ Returned /\ response.allowed
    /\ Has(response, "patch") /\ response.patch = Stringify(<<>>)

\* C3: under rejectOnError the first callback failure is the last callback
\* call of the execution: at most one failure is recorded, nothing is called
\* after it, and the processor has returned allowed=false with a result.
C3_FirstFailureEnds ==
    config.rejectOnError =>
        /\ Len(FailedCalls) <= 1
        /\ Len(FailedCalls) = 1 =>
                /\ LastCall.error # "none"
                /\ Returned
                /\ ~response.allowed
                /\ Has(response, "result")

\* a failure in the first capability while a matched binding follows it in
\* the same capability and another in the next capability
C3_Witness ==
    /\ config.rejectOnError
    /\ Len(invoked) = 1 /\ LastCall.error # "none"
    /\ LastCall.cap = 1 /\ LastCall.binding = 1
    /\ {<<1, 2>>, <<2, 1>>} \subseteq Matched

\* C4 as stated: after a callback failure under rejectOnError the result is
\* exactly "module configured to reject on error", the warning of the
\* failing callback is carried and there is no patch.
C4_ResultAsStated ==
    (config.rejectOnError /\ Returned /\ FailedCalls # <<>>) =>
        /\ Has(response, "result")
        /\ response.result = "module configured to reject on error"
        /\ response.warnings = <<"Action failed: " \o LastCall.error>>
        /\ ~Has(response, "patch")

\* C4 amended: the result is "Pepr module configured to reject on error";
\* the warning of the failing callback is carried and there is no patch.
C4_RejectResponse ==
    (config.rejectOnError /\ Returned /\ FailedCalls # <<>>) =>
        /\ Has(response, "result")
        /\ response.result = "Pepr module configured to reject on error"
        /\ response.warnings = <<"Action failed: " \o LastCall.error>>
        /\ ~Has(response, "patch")

\* the failure follows a callback that succeeded
C4_Witness ==
    /\ config.rejectOnError /\ Returned
    /\ Len(invoked) = 2 /\ invoked[1].error = "none" /\ invoked[2].error # "none"

\* C5: without rejectOnError the warnings of the response are the "Action
\* failed" messages of the callbacks that were called and failed, one each,
\* in the order of the calls.
C5_WarningsMatchFailures ==
    (~config.rejectOnError /\ pc \in {"loop", "done"}) =>
        response.warnings =
            [k \in 1..Len(FailedCalls) |-> "Action failed: " \o FailedCalls[k].error]

\* two failures in different capabilities with a success between them
C5_Witness ==
    /\ ~config.rejectOnError /\ Returned
    /\ Len(invoked) = 3
    /\ invoked[1].error # "none" /\ invoked[2].error = "none" /\ invoked[3].error # "none"
    /\ invoked[1].cap # invoked[3].cap

\* C6 as stated: without rejectOnError a callback failure does not stop the
\* processing: the working copy carries "warning" under the key of the
\* capability whose callback failed last, every matched binding is called,
\* and the response is allowed with a patch.
C6_FailureContinues ==
    (~config.rejectOnError /\ FailedCalls # <<>>) =>
        /\ pc # "threw"
        /\ LastCall.error # "none" => AnnotationOf(Raw, CapKey(LastCall.cap)) = "warning"
        /\ Returned =>
                /\ response.allowed
                /\ Has(response, "patch")
                /\ Matched \subseteq Called

\* C7: the callbacks are called in registration order, capability by
\* capability, each binding at most once, and only matched bindings; an
\* allowed response follows the call of every matched binding.
C7_RegistrationOrder ==
    /\ \A j, k \in 1..Len(invoked) :
            j < k =>
                \/ invoked[j].cap < invoked[k].cap
                \/ /\ invoked[j].cap = invoked[k].cap
                   /\ invoked[j].binding < invoked[k].binding
    /\ Called \subseteq Matched
    /\ (Returned /\ response.allowed) => Called = Matched

\* two bindings of the first capability, then one of the second
C7_Witness ==
    /\ Len(invoked) = 3
    /\ invoked[1].cap = 1 /\ invoked[2].cap = 1 /\ invoked[3].cap = 2

\* C8 as stated: a capability whose namespaces list is not empty and does
\* not contain the namespace of the request is skipped as a whole: none of
\* its callbacks is called and its key is not stamped.
C8_CapabilityNamespaces ==
    \A i \in 1..Len(capabilities) :
        (/\ capabilities[i].namespaces # {}
         /\ req.namespace \notin capabilities[i].namespaces) =>
            /\ \A k \in 1..Len(invoked) : invoked[k].cap # i
            /\ pc \in {"loop", "done"} =>
                    AnnotationOf(Raw, CapKey(i)) = AnnotationOf(req.object, CapKey(i))

\* C9 as stated: the output object of an allowed response carries no
\* annotation under the key of a capability one of whose bindings the
\* filter skipped.
C9_NoKeyForSkipped ==
    (Returned /\ response.allowed) =>
        \A i \in 1..Len(capabilities) :
            (\E b \in 1..Len(capabilities[i].bindings) :
                shouldSkipRequest(capabilities[i].bindings[b], req)) =>
                    AnnotationOf(Raw, CapKey(i)) = "absent"

\* C9 amended: a skipped binding stamps nothing: when the filter skips every
\* binding of a capability, the output object carries the key of that
\* capability exactly as request.object carried it.
C9_SkippedStampNothing ==
    (Returned /\ response.allowed) =>
        \A i \in 1..Len(capabilities) :
            (\A b \in 1..Len(capabilities[i].bindings) :
                shouldSkipRequest(capabilities[i].bindings[b], req)) =>
                    AnnotationOf(Raw, CapKey(i)) = AnnotationOf(req.object, CapKey(i))

\* the second capability has bindings, all skipped, while the first stamped
C9_Witness ==
    /\ Returned /\ response.allowed
    /\ Len(capabilities) = 2
    /\ Len(capabilities[2].bindings) > 0
    /\ \A b \in 1..Len(capabilities[2].bindings) :
            shouldSkipRequest(capabilities[2].bindings[b], req)
    /\ invoked # <<>>
    /\ AnnotationOf(Raw, CapKey(2)) = "absent"

\* C10 as stated: in the final object of an allowed response, the key of
\* the capability of every binding that was called and succeeded has the
\* value "succeeded".
C10_SucceededStamp ==
    (Returned /\ response.allowed) =>
        \A k \in 1..Len(invoked) :
            invoked[k].error = "none" =>
                AnnotationOf(Raw, CapKey(invoked[k].cap)) = "succeeded"

\* C12: applying the patch of an allowed response to request.object gives
\* the final working copy.
C12_PatchReproducesRaw ==
    (Returned /\ response.allowed) =>
        ApplyPatch(req.object, Parse(response.patch)) = Raw

\* the patch adds a label and replaces the stamp the inbound object carried
C12_Witness ==
    /\ Returned /\ response.allowed
    /\ Len(Parse(response.patch)) = 2
    /\ \E k \in 1..2 : Parse(response.patch)[k].op = "replace"
    /\ Raw # req.object

\* C15 as stated: after processing, the key of each capability holds the
\* outcome of the last binding of that capability that ran ("succeeded", or
\* "warning" when its callback failed), and distinct capabilities have
\* distinct keys.
C15_LastOutcomePerCapability ==
    /\ \A i, j \in 1..Len(capabilities) : i # j => CapKey(i) # CapKey(j)
    /\ (Returned /\ response.allowed) =>
            \A i \in 1..Len(capabilities) :
                LET calls == SelectSeq(invoked, LAMBDA e : e.cap = i)
                IN  calls # <<>> =>
                        AnnotationOf(Raw, CapKey(i)) =
                            IF calls[Len(calls)].error = "none"
                            THEN "succeeded" ELSE "warning"

\* C19 as stated: no allowed response is produced from a working copy in
\* which the key of a capability still has the value "started".
C19_NoStartedInAllowed ==
    (Returned /\ response.allowed) =>
        \A i \in 1..Len(capabilities) : AnnotationOf(Raw, CapKey(i)) # "started"

\* C20 as stated, for the request it singles out: the processing of a DELETE
\* request, whose object is absent, is not aborted.
C20_DeleteReturns == req.operation = "DELETE" => pc # "threw"

\* C11: when no callback mutates the object, the patch of an allowed response
\* is the empty array.
C11_QuietPatchEmpty ==
    (Returned /\ response.allowed) => Parse(response.patch) = <<>>

\* the capabilities of which a binding was run
RanCaps == { invoked[k].cap : k \in 1..Len(invoked) }

\* C11, as the code has it: when no callback mutates the object, the patch of
\* an allowed response holds nothing but the processor's own annotation
\* stamps, for capabilities of which a binding ran: every operation adds the
\* annotations map with such keys only, or adds or replaces one such key; the
\* patch is the empty array when no binding ran.
C11_QuietPatchOnlyStamps ==
    (Returned /\ response.allowed) =>
        LET patches == Parse(response.patch)
            keys == { CapKey(i) : i \in RanCaps }
        IN  /\ invoked = <<>> => patches = <<>>
            /\ \A k \in 1..Len(patches) :
                    /\ patches[k].op \in {"add", "replace"}
                    /\ \/ /\ patches[k].path = <<"metadata", "annotations">>
                          /\ DOMAIN patches[k].value \subseteq keys
                       \/ /\ Len(patches[k].path) = 3
                          /\ SubSeq(patches[k].path, 1, 2) = <<"metadata", "annotations">>
                          /\ patches[k].path[3] \in keys

C11_Witness ==
    /\ Returned /\ response.allowed
    /\ Len(invoked) = 1 /\ invoked[1].error = "none"
    /\ Parse(response.patch) =
            << [op |-> "add", path |-> <<"metadata", "annotations">>,
                value |-> (CapKey(invoked[1].cap) :> "succeeded")] >>

\* C14: when config.alwaysIgnore.kinds contains the kind of the request, no
\* callback runs and the processor returns allowed=true with the empty patch.
C14_GlobalKindIgnore ==
    req.kind \in config.alwaysIgnore.kinds =>
        /\ invoked = <<>>
        /\ pc # "threw"
        /\ Returned => response.allowed /\ Parse(response.patch) = <<>>

\* the diff of the request's object and the working copy could not be computed
DiffFailed == pc = "threw" /\ ci > Len(capabilities)

\* C13: when the diff cannot be computed, the processor returns a response
\* with allowed=false, the result "patch computation failed" and no patch.
C13_DiffFailureDenied ==
    DiffFailed =>
        /\ Returned
        /\ ~response.allowed
        /\ Has(response, "result") /\ response.result = "patch computation failed"
        /\ ~Has(response, "patch")

\* C16: no step of the processor changes request.object; the stamps and the
\* mutations of the callbacks go to the working copy only.
C16_RequestObjectKept == [][req'.object = req.object]_vars

C16_Witness ==
    /\ Returned /\ response.allowed
    /\ Len(capabilities) >= 1 /\ Raw # Null
    /\ AnnotationOf(Raw, CapKey(1)) = "succeeded"
    /\ Has(Raw.metadata, "labels")
    /\ AnnotationOf(req.object, CapKey(1)) = "absent"
    /\ ~Has(req.object.metadata, "labels")

\* the hash a Deployment definition starts the controller with
HashArgument(dep) == dep.command[3]

\* C18: the Deployment that allYaml renders, and the one a completed deploy
\* without host leaves in the cluster, start the controller with SHA-256(code),
\* and the module secret beside it holds the bundle under module-{that
\* hash}.js.gz.
C18_OneHash ==
    LET key == "module-" \o Sha256(code) \o ".js.gz"
    IN  /\ yaml # <<>> =>
            /\ HashArgument(yaml[8]) = Sha256(code)
            /\ DOMAIN yaml[10].data = {key}
            /\ yaml[10].data[key] = Gzip(code)
        /\ (dpc = "done" /\ host = "") =>
            /\ HashArgument(cluster["deployment"]) = Sha256(code)
            /\ DOMAIN cluster["moduleSecret"].data = {key}
            /\ cluster["moduleSecret"].data[key] = Gzip(code)

C18_Witness ==
    /\ dpc = "done" /\ host = "" /\ code = "a" /\ yaml # <<>>
    /\ HashArgument(cluster["deployment"])
         = "ca978112ca1bbdcafac231b39a23dc4da786eff8147c4e72b9807785afee48bb"
    /\ HashArgument(yaml[8]) = HashArgument(cluster["deployment"])

\* what invocation n ended with, Null while it has not returned
LocalsOf(n) == IF self = n /\ Finished(Locals) THEN Locals ELSE parked[n].locals

\* C17: whether the invocation for request B is made before or after it, the
\* invocation for request A ends as the invocation that handled the same
\* request with nothing before it: same response, same working copy, same
\* callbacks called, same way of ending; and the configuration and the
\* capabilities the invocations share are as they were given.
C17_Isolated ==
    LocalsOf("A") # Null =>
        /\ LocalsOf("A").response = LocalsOf("solo").response
        /\ LocalsOf("A").Raw = LocalsOf("solo").Raw
        /\ LocalsOf("A").invoked = LocalsOf("solo").invoked
        /\ LocalsOf("A").pc = LocalsOf("solo").pc
        /\ LocalsOf("A").req = LocalsOf("solo").req

\* A returns after B, B left a warning and a changed working copy behind,
\* and A has neither
C17_Witness ==
    /\ self = "A" /\ pc = "done"
    /\ LocalsOf("B") # Null
    /\ LocalsOf("B").response.warnings # <<>>
    /\ LocalsOf("B").Raw # LocalsOf("B").req.object
    /\ LocalsOf("B").Raw # Raw
    /\ response.warnings = <<>>
    /\ invoked # <<>>

\* the object the API server obtains by applying the patch of the response
Patched == ApplyPatch(req.object, Parse(response.patch))

\* the mutation a callback makes is in the document
Holds(doc, effect) ==
    CASE effect = "setLabel" ->
            Has(doc.metadata, "labels") /\ doc.metadata.labels = [k \in {"x"} |-> "y"]
      [] effect = "rename" -> doc.metadata.name = "p2"
      [] OTHER -> TRUE

\* C21: without rejectOnError, the mutation of every callback that was called,
\* the failing ones included, is in the working copy when the processor
\* returns, and in the object the patch of the allowed response produces.
C21_FailureKeepsMutations ==
    (Returned /\ response.allowed /\ ~config.rejectOnError) =>
        \A k \in 1..Len(invoked) :
            /\ Holds(Raw, behaviour[invoked[k].cap].effect)
            /\ Holds(Patched, behaviour[invoked[k].cap].effect)

C21_Witness ==
    /\ Returned /\ response.allowed /\ ~config.rejectOnError
    /\ Len(invoked) = 2
    /\ invoked[1].error = "none" /\ behaviour[invoked[1].cap].effect = "setLabel"
    /\ invoked[2].error # "none" /\ behaviour[invoked[2].cap].effect = "rename"
    /\ Raw.metadata.name = "p2" /\ Has(Raw.metadata, "labels")
    /\ Len(response.warnings) = 1

\* C22: when a deploy without host has completed without error, the cluster
\* holds every managed resource with the definition generated by this deploy.
C22_CreateOrReplace ==
    (dpc = "done" /\ host = "") =>
        \A r \in DOMAIN cluster : cluster[r] = Generated(This, code, r)

\* the resources a deploy with a host may touch
HostManaged == {"namespace", "webhook"}

\* the webhook configuration calls the host, not the service of the cluster
TargetsHost(def) ==
    /\ Has(def.clientConfig, "url")
    /\ def.clientConfig.url = "https://" \o host \o ":3000/mutate"
    /\ ~Has(def.clientConfig, "service")

\* C23: with a host, deploy ends after the webhook configuration: when it has
\* completed the namespace exists and the cluster holds the generated webhook
\* configuration, whose clientConfig is the url https://{host}:3000/mutate and
\* no service; and no step of it creates, deletes or modifies any resource
\* other than these two.
C23_HostDeploy ==
    /\ [](host # "" =>
            /\ dpc \in HostManaged \cup {"idle", "done", "threw"}
            /\ dpc = "done" =>
                  /\ cluster["namespace"] # Absent
                  /\ cluster["webhook"] = mutatingWebhook(This)
                  /\ TargetsHost(cluster["webhook"]))
    /\ [][host # "" =>
            \A r \in DOMAIN cluster \ HostManaged : cluster'[r] = cluster[r]]_vars

C23_Witness ==
    /\ host = "host.docker.internal" /\ dpc = "done"
    /\ cluster["webhook"].clientConfig.url = "https://host.docker.internal:3000/mutate"
    /\ cluster["deployment"] = Absent
    /\ cluster["networkPolicy"] = Earlier["networkPolicy"]
    /\ cluster["moduleSecret"] = Absent

====
